---- MODULE Spec2Model ----
(***************************************************************************)
(* Model of two parts of arduino-cli:                                      *)
(*   - commands/debug/debug_info.go : getDebugProperties, the resolution   *)
(*     of the debug configuration of a board from layered properties;      *)
(*   - the sketch builder (package builder): PrepareSketchBuildPath,       *)
(*     sketchMergeSources, sketchCopyAdditionalFiles, writeIfDifferent.    *)
(*                                                                         *)
(* A property key is the sequence of its dot-separated segments            *)
(* ("debug.executable" is <<"debug", "executable">>).  A property value is *)
(* a sequence of tokens: [lit |-> s] is literal text, [ref |-> k] is the   *)
(* placeholder {k}.  A property map is a function from keys to values.     *)
(***************************************************************************)
EXTENDS Integers, Sequences, FiniteSets, TLC

VARIABLES
    pc,               \* "start" before the call of getDebugProperties, "done" after
    req,              \* the DebugConfigRequest
    sk,               \* what sketch.New yields for the request's sketch path
    pm,               \* what the package manager answers
    mergedProps,      \* toolProperties after the programmer layer (line 116)
    toolProperties,   \* toolProperties when the debug subtree is extracted (line 139)
    debugProperties,  \* the extracted and expanded debug subtree (line 143)
    ret,              \* what getDebugProperties returns (or its panic)
    sketch,           \* b.sketch: the files of the sketch
    srcDisk,          \* the readable files of the sketch directory and their content
    buildDisk,        \* the build directory: whether it exists, and its files
    call,             \* the last call of the builder: its arguments and what it did
    out               \* what the last call of the builder returned

debugVars == <<pc, req, sk, pm, mergedProps, toolProperties, debugProperties, ret>>

builderVars == <<sketch, srcDisk, buildDisk, call, out>>

vars == <<debugVars, builderVars>>

-----------------------------------------------------------------------------
(* Keys and values *)

Lit(s) == [lit |-> s]
Ref(k) == [ref |-> k]
IsRef(tok) == "ref" \in DOMAIN tok

KExecutable  == <<"debug", "executable">>
KToolchain   == <<"debug", "toolchain">>
KBuildPath   == <<"build", "path">>
KProjectName == <<"build", "project_name">>
KPort        == <<"debug", "port">>
KPortFile    == <<"debug", "port", "file">>

(* go-properties-orderedmap, as getDebugProperties uses it *)
NewMap == [k \in {} |-> <<>>]

ContainsKey(m, k) == k \in DOMAIN m

Get(m, k) == IF k \in DOMAIN m THEN m[k] ELSE <<>>

Set(m, k, v) == [x \in (DOMAIN m) \cup {k} |-> IF x = k THEN v ELSE m[x]]

(* Merge where a key the map already holds keeps its value *)
Merge_KeepFirst(m, o) ==
    [k \in (DOMAIN m) \cup (DOMAIN o) |-> IF k \in DOMAIN m THEN m[k] ELSE o[k]]

Merge(m, o) == [k \in (DOMAIN m) \cup (DOMAIN o) |-> IF k \in DOMAIN o THEN o[k] ELSE m[k]]

SetPath(m, k, path) == Set(m, k, <<Lit(path)>>)

HasPrefix(k, prefix) == Len(k) > Len(prefix) /\ SubSeq(k, 1, Len(prefix)) = prefix

SubTree(m, prefix) ==
    [t \in {SubSeq(k, Len(prefix) + 1, Len(k)) : k \in {x \in DOMAIN m : HasPrefix(x, prefix)}}
        |-> m[prefix \o t]]

RECURSIVE ReplaceAll(_, _)
(* one pass of strings.Replace over every key of the map: each placeholder
   whose key the map holds gives way to the key's value, the others stay *)
ReplaceAll(m, str) ==
    IF str = <<>> THEN <<>>
    ELSE LET tok == Head(str)
         IN  (IF IsRef(tok) /\ tok.ref \in DOMAIN m THEN m[tok.ref] ELSE <<tok>>)
                 \o ReplaceAll(m, Tail(str))

ExpandRounds == 10

RECURSIVE ExpandLoop(_, _, _)
ExpandLoop(m, str, i) ==
    IF i >= ExpandRounds THEN str
    ELSE LET newStr == ReplaceAll(m, str)
         IN  IF newStr = str THEN str ELSE ExpandLoop(m, newStr, i + 1)

ExpandPropsInString(m, str) == ExpandLoop(m, str, 0)

-----------------------------------------------------------------------------
(* getDebugProperties, step by step *)

Nil == [nil |-> TRUE]

LegacyPlatforms == {"arduino:samd@1.8.9", "arduino:samd@1.8.8"}

ToolPathRef(tool) == Ref(<<"runtime", "tools", tool, "path">>)

(* lines 56-59: the board identifier of the request, else of the sketch metadata *)
FqbnIn ==
    IF req.fqbn = "" /\ sk.hasMetadata THEN sk.metadataFqbn ELSE req.fqbn

(* lines 75-81 *)
PlatformLayers ==
    LET m0 == NewMap
        m1 == IF pm.referencedPlatformRelease # Nil
              THEN Merge(m0, pm.referencedPlatformRelease.Properties) ELSE m0
        m2 == Merge(m1, pm.platformRelease.Properties)
        m3 == Merge(m2, pm.platformRelease.RuntimeProperties)
    IN  Merge(m3, pm.boardProperties)

(* lines 87-94 *)
LegacySet(m) ==
    LET s1 == Set(m, KExecutable, <<Ref(KBuildPath), Lit("/"), Ref(KProjectName), Lit(".elf")>>)
        s2 == Set(s1, KToolchain, <<Lit("gcc")>>)
        s3 == Set(s2, <<"debug", "toolchain", "path">>,
                  <<ToolPathRef("arm-none-eabi-gcc-7-2017q4"), Lit("/bin/")>>)
        s4 == Set(s3, <<"debug", "toolchain", "prefix">>, <<Lit("arm-none-eabi-")>>)
        s5 == Set(s4, <<"debug", "server">>, <<Lit("openocd")>>)
        s6 == Set(s5, <<"debug", "server", "openocd", "path">>,
                  <<ToolPathRef("openocd-0.10.0-arduino7"), Lit("/bin/openocd")>>)
        s7 == Set(s6, <<"debug", "server", "openocd", "scripts_dir">>,
                  <<ToolPathRef("openocd-0.10.0-arduino7"), Lit("/share/openocd/scripts/")>>)
    IN  Set(s7, <<"debug", "server", "openocd", "script">>,
            <<Ref(<<"runtime", "platform", "path">>), Lit("/variants/"),
              Ref(<<"build", "variant">>), Lit("/"), Ref(<<"build", "openocdscript">>)>>)

(* the hotfix applied to every platform *)
Hotfix_AnyPlatform(m) == IF ~ContainsKey(m, KExecutable) THEN LegacySet(m) ELSE m

(* lines 85-96 *)
Hotfix(m) ==
    IF ~ContainsKey(m, KExecutable)
    THEN IF pm.platformRelease.String \in LegacyPlatforms THEN LegacySet(m) ELSE m
    ELSE m

RECURSIVE MergeAll(_, _)
(* the loops of lines 98-100 and 102-105: merge the runtime properties of
   the tools, in the order of the slice *)
MergeAll(m, tools) ==
    IF tools = <<>> THEN m ELSE MergeAll(Merge(m, Head(tools)), Tail(tools))

(* lines 98-106: a failed FindToolsRequiredForBoard skips the second loop *)
ToolLayers(m) ==
    LET m1 == MergeAll(m, pm.installedToolsReleases)
    IN  IF pm.requiredToolsErr THEN m1 ELSE MergeAll(m1, pm.requiredTools)

(* lines 108-116: "merged", "notfound", or "panic" for the index of the
   Programmers field through a nil referencedPlatformRelease *)
ProgrammerLookup ==
    IF req.programmer = "" THEN "none"
    ELSE IF req.programmer \in DOMAIN pm.platformRelease.Programmers THEN "platform"
    ELSE IF pm.referencedPlatformRelease = Nil THEN "panic"
    ELSE IF req.programmer \in DOMAIN pm.referencedPlatformRelease.Programmers THEN "referenced"
    ELSE "notfound"

ProgrammerLayer(m) ==
    IF ProgrammerLookup = "platform"
    THEN Merge(m, pm.platformRelease.Programmers[req.programmer])
    ELSE IF ProgrammerLookup = "referenced"
    THEN Merge(m, pm.referencedPlatformRelease.Programmers[req.programmer])
    ELSE m

(* lines 75-116 *)
MergedLayers == ProgrammerLayer(ToolLayers(Hotfix(PlatformLayers)))

(* lines 118-121 *)
ImportPath == IF req.importDir # "" THEN req.importDir ELSE sk.BuildPath

(* the request's values set only for the keys no layer defines *)
BindBuildPath_IfAbsent(m) ==
    LET m1 == IF ContainsKey(m, KBuildPath) THEN m ELSE SetPath(m, KBuildPath, ImportPath)
    IN  IF ContainsKey(m1, KProjectName) THEN m1
        ELSE Set(m1, KProjectName, <<Lit(sk.Name), Lit(".ino")>>)

(* lines 128-129 *)
BindBuildPath(m) ==
    Set(SetPath(m, KBuildPath, ImportPath), KProjectName, <<Lit(sk.Name), Lit(".ino")>>)

(* the prefix removed wherever it stands in the address *)
TrimPrefix_Anywhere(address, prefix) ==
    LET keep == {i \in 1..Len(address) : address[i] # prefix}
        nth(n) == CHOOSE i \in keep : Cardinality({j \in keep : j <= i}) = n
    IN  [n \in 1..Cardinality(keep) |-> address[nth(n)]]

(* strings.TrimPrefix(address, "/dev/"); an address is the sequence of its pieces *)
TrimPrefix(address, prefix) ==
    IF Len(address) >= 1 /\ address[1] = prefix THEN Tail(address) ELSE address

AsValue(pieces) == [i \in 1..Len(pieces) |-> Lit(pieces[i])]

(* lines 132-137 *)
BindPort(m) ==
    IF req.port # <<>>
    THEN Set(Set(m, KPort, AsValue(req.port)), KPortFile, AsValue(TrimPrefix(req.port, "/dev/")))
    ELSE m

(* lines 140-143 *)
ExtractDebug(m) ==
    LET sub == SubTree(m, <<"debug">>)
    IN  [k \in DOMAIN sub |-> ExpandPropsInString(m, sub[k])]

(* the segments a value contributes to a key built by concatenation *)
KeySegs(v) ==
    IF v = <<>> THEN <<"">>
    ELSE [i \in 1..Len(v) |-> IF IsRef(v[i]) THEN "{}" ELSE v[i].lit]

(* lines 149-160 *)
Response(dp) ==
    LET server    == Get(dp, <<"server">>)
        toolchain == Get(dp, <<"toolchain">>)
    IN  [Executable             |-> Get(dp, <<"executable">>),
         Server                 |-> server,
         ServerPath             |-> Get(dp, <<"server">> \o KeySegs(server) \o <<"path">>),
         ServerConfiguration    |-> SubTree(dp, <<"server">> \o KeySegs(server)),
         Toolchain              |-> toolchain,
         ToolchainPath          |-> Get(dp, <<"toolchain", "path">>),
         ToolchainPrefix        |-> Get(dp, <<"toolchain", "prefix">>),
         ToolchainConfiguration |-> SubTree(dp, <<"toolchain">> \o KeySegs(toolchain))]

NoResponse == [Executable |-> <<>>]

Failure(msg, arg) == [kind |-> "error", msg |-> msg, arg |-> arg, response |-> NoResponse]
Panic             == [kind |-> "panic", msg |-> "nil pointer dereference", arg |-> "",
                      response |-> NoResponse]
Success(resp)     == [kind |-> "ok", msg |-> "", arg |-> "", response |-> resp]
NotCalled         == [kind |-> "none", msg |-> "", arg |-> "", response |-> NoResponse]

(* lines 43-161: the call as a whole.  at: how far toolProperties got *)
Outcome ==
    IF req.sketchPath = "" THEN [ret |-> Failure("missing sketchPath", ""), at |-> "none"]
    ELSE IF sk.openErr THEN [ret |-> Failure("opening sketch", req.sketchPath), at |-> "none"]
    ELSE IF FqbnIn = ""
    THEN [ret |-> Failure("no Fully Qualified Board Name provided", ""), at |-> "none"]
    ELSE IF FqbnIn \in pm.unparsable
    THEN [ret |-> Failure("error parsing FQBN", FqbnIn), at |-> "none"]
    ELSE IF FqbnIn \in pm.unknown
    THEN [ret |-> Failure("error resolving FQBN", FqbnIn), at |-> "none"]
    ELSE IF ProgrammerLookup = "panic" THEN [ret |-> Panic, at |-> "none"]
    ELSE IF ProgrammerLookup = "notfound"
    THEN [ret |-> Failure("programmer '%s' not found", req.programmer), at |-> "none"]
    ELSE IF pm.pathStatus[ImportPath] = "missing"
    THEN [ret |-> Failure("compiled sketch not found in %s", ImportPath), at |-> "merged"]
    ELSE IF pm.pathStatus[ImportPath] # "dir"
    THEN [ret |-> Failure("expected compiled sketch in directory %s, but is a file instead",
                          ImportPath), at |-> "merged"]
    ELSE LET dp == ExtractDebug(BindPort(BindBuildPath(MergedLayers)))
         IN  IF ~ContainsKey(dp, <<"executable">>)
             THEN [ret |-> Failure("debugging not supported for board %s", req.fqbn),
                   at |-> "extracted"]
             ELSE [ret |-> Success(Response(dp)), at |-> "extracted"]

GetDebugConfig ==
    /\ pc = "start"
    /\ pc' = "done"
    /\ ret' = Outcome.ret
    /\ mergedProps' = IF Outcome.at \in {"merged", "extracted"} THEN MergedLayers ELSE NewMap
    /\ toolProperties' = IF Outcome.at = "extracted"
                         THEN BindPort(BindBuildPath(MergedLayers)) ELSE NewMap
    /\ debugProperties' = IF Outcome.at = "extracted"
                          THEN ExtractDebug(BindPort(BindBuildPath(MergedLayers))) ELSE NewMap
    /\ UNCHANGED <<req, sk, pm>>
    /\ UNCHANGED builderVars

-----------------------------------------------------------------------------
(* The sketch builder.  A text is a sequence of tokens: "nl" is a newline,
   "ws" a run of blanks, "#", "include", "<Arduino.h>" (in either quote
   style) and "<arduino.h>" the pieces of an include directive, any other
   token other text.  A file is named by its path relative to the sketch. *)

(* includesArduinoH: (?m)^\s*#\s*include\s*[<\"]Arduino\.h[>\"] ; \s matches
   blanks and newlines *)
RECURSIVE SkipSpace(_, _)
SkipSpace(text, p) ==
    IF p <= Len(text) /\ text[p] \in {"ws", "nl"} THEN SkipSpace(text, p + 1) ELSE p

TokenAt(text, p, tok) == p <= Len(text) /\ text[p] = tok

MatchAt(text, p) ==
    LET hash    == SkipSpace(text, p)
        include == SkipSpace(text, hash + 1)
        header  == SkipSpace(text, include + 1)
    IN  /\ TokenAt(text, hash, "#")
        /\ TokenAt(text, include, "include")
        /\ TokenAt(text, header, "<Arduino.h>")

includesArduinoH(text) ==
    \E p \in 1..Len(text) : (p = 1 \/ text[p - 1] = "nl") /\ MatchAt(text, p)

(* file.String(): the absolute path *)
PathString(f) == <<"/sk/", f>>

RECURSIVE Escape(_)
Escape(str) ==
    IF str = <<>> THEN <<>>
    ELSE (IF Head(str) \in {"\\", "\""} THEN <<"\\", Head(str)>> ELSE <<Head(str)>>)
             \o Escape(Tail(str))

(* cpp.QuoteString *)
QuoteString(str) == <<"\"">> \o Escape(str) \o <<"\"">>

LineMarker(f) == <<"#line 1 ">> \o QuoteString(PathString(f)) \o <<"nl">>

IncludeLine == <<"#", "include", "ws", "<Arduino.h>", "nl">>

NoError == "nil"

(* getSource, lines 131-144 *)
getSource(f, overrides) ==
    IF f \in sketch.outside
    THEN [src |-> <<>>, err |-> "unable to compute relative path to the sketch for the item"]
    ELSE IF f \in DOMAIN overrides THEN [src |-> overrides[f], err |-> NoError]
    ELSE IF f \notin DOMAIN srcDisk THEN [src |-> <<>>, err |-> "reading file"]
    ELSE [src |-> srcDisk[f], err |-> NoError]

MergeFailed(err) == [offset |-> 0, merged |-> <<>>, err |-> err]

RECURSIVE MergeOthers_CountsMarkers(_, _, _, _)
(* the loop counting the marker line of every other file into the offset *)
MergeOthers_CountsMarkers(files, overrides, lineOffset, mergedSource) ==
    IF files = <<>> THEN [offset |-> lineOffset, merged |-> mergedSource, err |-> NoError]
    ELSE LET got == getSource(Head(files), overrides)
         IN  IF got.err # NoError THEN MergeFailed(got.err)
             ELSE MergeOthers_CountsMarkers(Tail(files), overrides, lineOffset + 1,
                      mergedSource \o LineMarker(Head(files)) \o got.src \o <<"nl">>)

RECURSIVE MergeOthers(_, _, _, _)
(* lines 160-167 *)
MergeOthers(files, overrides, lineOffset, mergedSource) ==
    IF files = <<>> THEN [offset |-> lineOffset, merged |-> mergedSource, err |-> NoError]
    ELSE LET got == getSource(Head(files), overrides)
         IN  IF got.err # NoError THEN MergeFailed(got.err)
             ELSE MergeOthers(Tail(files), overrides, lineOffset,
                              mergedSource \o LineMarker(Head(files)) \o got.src \o <<"nl">>)

(* lines 127-170 *)
sketchMergeSources(overrides) ==
    LET got     == getSource(sketch.MainFile, overrides)
        missing == ~includesArduinoH(got.src)
        offset1 == IF missing THEN 1 ELSE 0
        merged1 == IF missing THEN IncludeLine ELSE <<>>
    IN  IF got.err # NoError THEN MergeFailed(got.err)
        ELSE MergeOthers(sketch.OtherSketchFiles, overrides, offset1 + 1,
                         merged1 \o LineMarker(sketch.MainFile) \o got.src \o <<"nl">>)

(* a failing WriteFile leaves the file as it was, or created or cut down to nothing *)
FailedWrite(files, dest, partial) ==
    IF partial THEN [f \in (DOMAIN files) \cup {dest} |-> IF f = dest THEN <<>> ELSE files[f]]
    ELSE files

WriteFile(files, dest, data) ==
    [f \in (DOMAIN files) \cup {dest} |-> IF f = dest THEN data ELSE files[f]]

(* the destination written whatever it holds *)
writeIfDifferent_Always(source, dest, files, fail) ==
    IF fail.point = "writedest" /\ fail.file = dest
    THEN [files |-> FailedWrite(files, dest, fail.partial), wrote |-> FALSE, err |-> "write"]
    ELSE [files |-> WriteFile(files, dest, source), wrote |-> TRUE, err |-> NoError]

(* lines 212-232; fail names the input/output operation that fails, if any *)
writeIfDifferent(source, dest, files, fail) ==
    LET write == IF fail.point = "writedest" /\ fail.file = dest
                 THEN [files |-> FailedWrite(files, dest, fail.partial), wrote |-> FALSE,
                       err |-> "write"]
                 ELSE [files |-> WriteFile(files, dest, source), wrote |-> TRUE, err |-> NoError]
    IN  IF dest \notin DOMAIN files THEN write
        ELSE IF fail.point = "readdest" /\ fail.file = dest
        THEN [files |-> files, wrote |-> FALSE,
              err |-> "unable to read contents of the destination item"]
        ELSE IF files[dest] # source THEN write
        ELSE [files |-> files, wrote |-> FALSE, err |-> NoError]

CopyState(disk) == [disk |-> disk, done |-> [f \in {} |-> <<>>], written |-> {}, err |-> NoError]

RECURSIVE CopyLoop(_, _, _, _)
(* lines 175-209: st is the build directory and what the loop did so far *)
CopyLoop(files, overrides, fail, st) ==
    IF files = <<>> THEN st
    ELSE LET file == Head(files)
         IN  IF file \in sketch.outside
             THEN [st EXCEPT !.err = "unable to compute relative path to the sketch for the item"]
             ELSE IF fail.point = "mkparent" /\ fail.file = file
             THEN [st EXCEPT !.err = "unable to create the folder containing the item"]
             ELSE IF file \notin DOMAIN overrides /\ file \notin DOMAIN srcDisk
             THEN [st EXCEPT !.disk = [st.disk EXCEPT !.dir = TRUE],
                             !.err = "unable to read contents of the source item"]
             ELSE LET sourceBytes == LineMarker(file) \o
                                       (IF file \in DOMAIN overrides THEN overrides[file]
                                        ELSE srcDisk[file])
                      w == writeIfDifferent(sourceBytes, file, st.disk.files, fail)
                      disk1 == [dir |-> TRUE, files |-> w.files]
                  IN  IF w.err # NoError
                      THEN [st EXCEPT !.disk = disk1,
                                      !.err = "unable to write to destination file"]
                      ELSE CopyLoop(Tail(files), overrides, fail,
                               [disk    |-> disk1,
                                done    |-> [f \in (DOMAIN st.done) \cup {file} |->
                                               IF f = file THEN sourceBytes ELSE st.done[f]],
                                written |-> IF w.wrote THEN st.written \cup {file}
                                            ELSE st.written,
                                err     |-> NoError])

(* lines 174-210 *)
sketchCopyAdditionalFiles(disk, overrides, fail) ==
    CopyLoop(sketch.AdditionalFiles, overrides, fail, CopyState(disk))

(* MainFile.Base() + ".cpp" *)
CppFile == sketch.MainFile \o ".cpp"

(* the merged file written before the error of the merge is looked at *)
PrepareOutcome_WriteFirst(overrides, fail) ==
    LET m     == sketchMergeSources(overrides)
        disk1 == [buildDisk EXCEPT !.dir = TRUE]
        disk2 == [disk1 EXCEPT !.files = WriteFile(disk1.files, CppFile, m.merged)]
        cp    == sketchCopyAdditionalFiles(disk2, overrides, fail)
    IN  IF fail.point = "mkdir"
        THEN [disk |-> buildDisk, steps |-> <<"mkdir">>, copy |-> CopyState(buildDisk),
              offset |-> 0, err |-> "unable to create a folder to save the sketch"]
        ELSE IF m.err # NoError
        THEN [disk |-> disk2, steps |-> <<"mkdir", "merge">>, copy |-> CopyState(disk2),
              offset |-> 0, err |-> m.err]
        ELSE IF fail.point = "writecpp"
        THEN [disk |-> [disk1 EXCEPT !.files = FailedWrite(disk1.files, CppFile, fail.partial)],
              steps |-> <<"mkdir", "merge", "write">>, copy |-> CopyState(disk1),
              offset |-> 0, err |-> "write"]
        ELSE IF cp.err # NoError
        THEN [disk |-> cp.disk, steps |-> <<"mkdir", "merge", "write", "copy">>, copy |-> cp,
              offset |-> 0, err |-> cp.err]
        ELSE [disk |-> cp.disk, steps |-> <<"mkdir", "merge", "write", "copy">>, copy |-> cp,
              offset |-> m.offset, err |-> NoError]

(* lines 103-123: the build directory, the steps taken and the return values *)
PrepareOutcome(overrides, fail) ==
    LET m     == sketchMergeSources(overrides)
        disk1 == [buildDisk EXCEPT !.dir = TRUE]
        disk2 == [disk1 EXCEPT !.files = WriteFile(disk1.files, CppFile, m.merged)]
        cp    == sketchCopyAdditionalFiles(disk2, overrides, fail)
    IN  IF fail.point = "mkdir"
        THEN [disk |-> buildDisk, steps |-> <<"mkdir">>, copy |-> CopyState(buildDisk),
              offset |-> 0, err |-> "unable to create a folder to save the sketch"]
        ELSE IF m.err # NoError
        THEN [disk |-> disk1, steps |-> <<"mkdir", "merge">>, copy |-> CopyState(disk1),
              offset |-> 0, err |-> m.err]
        ELSE IF fail.point = "writecpp"
        THEN [disk |-> [disk1 EXCEPT !.files = FailedWrite(disk1.files, CppFile, fail.partial)],
              steps |-> <<"mkdir", "merge", "write">>, copy |-> CopyState(disk1),
              offset |-> 0, err |-> "write"]
        ELSE IF cp.err # NoError
        THEN [disk |-> cp.disk, steps |-> <<"mkdir", "merge", "write", "copy">>, copy |-> cp,
              offset |-> 0, err |-> cp.err]
        ELSE [disk |-> cp.disk, steps |-> <<"mkdir", "merge", "write", "copy">>, copy |-> cp,
              offset |-> m.offset, err |-> NoError]

NoOverrides == [f \in {} |-> <<>>]

NoFailure == [point |-> "none", file |-> "", partial |-> FALSE]

(* the input/output operations of a call that may fail, and how *)
Failures ==
    {NoFailure}
        \cup [point : {"mkdir"}, file : {""}, partial : {FALSE}]
        \cup [point : {"writecpp"}, file : {""}, partial : BOOLEAN]
        \cup {f \in [point : {"mkparent", "readdest", "writedest"},
                     file : {sketch.AdditionalFiles[i] : i \in 1..Len(sketch.AdditionalFiles)},
                     partial : BOOLEAN] : f.partial => f.point = "writedest"}

OverrideTexts == {<<"x", "nl">>, <<"ws", "#", "include", "<Arduino.h>">>}

SketchFiles ==
    {sketch.MainFile}
        \cup {sketch.OtherSketchFiles[i] : i \in 1..Len(sketch.OtherSketchFiles)}
        \cup {sketch.AdditionalFiles[i] : i \in 1..Len(sketch.AdditionalFiles)}

(* the overrides a caller passes: none, or a text for the main file, or a
   text for the first of the additional files or of the other source files *)
OverrideSets ==
    {NoOverrides}
        \cup {[g \in {sketch.MainFile} |-> t] : t \in OverrideTexts}
        \cup {[g \in {f} |-> <<"x", "nl">>] :
                 f \in {(sketch.AdditionalFiles \o sketch.OtherSketchFiles)[i] :
                           i \in 1..(IF sketch.AdditionalFiles \o sketch.OtherSketchFiles = <<>>
                                      THEN 0 ELSE 1)}}

NoCall == [op |-> "none", overrides |-> NoOverrides, steps |-> <<>>,
           done |-> [f \in {} |-> <<>>], written |-> {}, merged |-> <<>>]

NoReturn == [offset |-> 0, merged |-> <<>>, err |-> NoError]

PrepareSketchBuildPath ==
    \E overrides \in OverrideSets, fail \in Failures :
        LET o == PrepareOutcome(overrides, fail)
        IN  /\ buildDisk' = o.disk
            /\ call' = [op |-> "PrepareSketchBuildPath", overrides |-> overrides,
                        steps |-> o.steps, done |-> o.copy.done, written |-> o.copy.written,
                        merged |-> sketchMergeSources(overrides).merged]
            /\ out' = [offset |-> o.offset, merged |-> <<>>, err |-> o.err]
            /\ UNCHANGED <<sketch, srcDisk>>
            /\ UNCHANGED debugVars

SketchMergeSources ==
    \E overrides \in OverrideSets :
        LET m == sketchMergeSources(overrides)
        IN  /\ call' = [op |-> "sketchMergeSources", overrides |-> overrides,
                        steps |-> <<"merge">>, done |-> NoCall.done, written |-> {},
                        merged |-> m.merged]
            /\ out' = m
            /\ UNCHANGED <<sketch, srcDisk, buildDisk>>
            /\ UNCHANGED debugVars

SketchCopyAdditionalFiles ==
    \E overrides \in OverrideSets, fail \in Failures :
        LET cp == sketchCopyAdditionalFiles(buildDisk, overrides, fail)
        IN  /\ fail.point \notin {"mkdir", "writecpp"}
            /\ buildDisk' = cp.disk
            /\ call' = [op |-> "sketchCopyAdditionalFiles", overrides |-> overrides,
                        steps |-> <<"copy">>, done |-> cp.done, written |-> cp.written,
                        merged |-> <<>>]
            /\ out' = [offset |-> 0, merged |-> <<>>, err |-> cp.err]
            /\ UNCHANGED <<sketch, srcDisk>>
            /\ UNCHANGED debugVars

FileTexts == {<<"x">>, <<"#", "include", "ws", "<Arduino.h>", "nl", "x">>}

(* the user edits a file of the sketch between two builds *)
EditFile ==
    \E f \in {sketch.MainFile} \cup {sketch.AdditionalFiles[i] : i \in 1..Len(sketch.AdditionalFiles)},
       t \in FileTexts :
        /\ srcDisk' = [g \in (DOMAIN srcDisk) \cup {f} |-> IF g = f THEN t ELSE srcDisk[g]]
        /\ srcDisk' # srcDisk
        /\ UNCHANGED <<sketch, buildDisk, call, out>>
        /\ UNCHANGED debugVars

(* a file of the sketch becomes unreadable *)
LoseFile ==
    \E f \in DOMAIN srcDisk :
        /\ f # sketch.MainFile
        /\ srcDisk' = [g \in (DOMAIN srcDisk) \ {f} |-> srcDisk[g]]
        /\ UNCHANGED <<sketch, buildDisk, call, out>>
        /\ UNCHANGED debugVars

-----------------------------------------------------------------------------
(* Inputs.  A layer definition says that the layer of a slot defines a key;
   the value names the slot, so that the layer a merged value came from can
   be told.  Slots: the referenced platform, the platform, its runtime
   properties, the board, two installed tools, two tools the board requires,
   the programmer tables of the platform (pp) and of the referenced platform (rp). *)

MaxDefs == 2

Slots == {"ref", "plat", "runtime", "board", "tool1", "tool2", "req1", "req2", "pp", "rp"}

LayerKeys == {KExecutable, KToolchain, KBuildPath}

Kinds(key) == IF key = KExecutable THEN {"lit", "tmpl"} ELSE {"lit"}

DefUniverse == {d \in [slot : Slots, key : LayerKeys, kind : {"lit", "tmpl"}] : d.kind \in Kinds(d.key)}

ValueOf(d) ==
    IF d.kind = "lit" THEN <<Lit(d.slot)>>
    ELSE <<Ref(KBuildPath), Lit("/"), Ref(KProjectName), Lit(d.slot)>>

Consistent(D) == \A d1, d2 \in D : (d1.slot = d2.slot /\ d1.key = d2.key) => d1 = d2

RECURSIVE SubsetsUpTo(_, _)
SubsetsUpTo(U, n) ==
    IF n = 0 THEN {{}}
    ELSE LET S == SubsetsUpTo(U, n - 1)
         IN  S \cup {s \cup {x} : s \in S, x \in U}

DefSets == {D \in SubsetsUpTo(DefUniverse, MaxDefs) : Consistent(D)}

Props(D, slot) ==
    [k \in {d.key : d \in {e \in D : e.slot = slot}}
        |-> ValueOf(CHOOSE d \in D : d.slot = slot /\ d.key = k)]

PlatformIds == {"arduino:samd@1.8.9", "arduino:samd@1.8.8", "arduino:samd@1.8.10"}

PlatformRelease(D, id) ==
    [String            |-> id,
     Properties        |-> Props(D, "plat"),
     RuntimeProperties |-> Props(D, "runtime"),
     Programmers       |-> [p \in {"p_plat", "p_both"} |-> Props(D, "pp")]]

ReferencedPlatformRelease(D) ==
    [String            |-> "arduino:sam@1.6.12",
     Properties        |-> Props(D, "ref"),
     RuntimeProperties |-> NewMap,
     Programmers       |-> [p \in {"p_ref", "p_both"} |-> Props(D, "rp")]]

PackageManager(D, id, refExists, swap, reqErr, status) ==
    [platformRelease           |-> PlatformRelease(D, id),
     referencedPlatformRelease |-> IF refExists THEN ReferencedPlatformRelease(D) ELSE Nil,
     boardProperties           |-> Props(D, "board"),
     installedToolsReleases    |-> IF swap THEN <<Props(D, "tool2"), Props(D, "tool1")>>
                                   ELSE <<Props(D, "tool1"), Props(D, "tool2")>>,
     requiredTools             |-> <<Props(D, "req1"), Props(D, "req2")>>,
     requiredToolsErr          |-> reqErr,
     unparsable                |-> {"bad"},
     unknown                   |-> {"arduino:samd:unknown"},
     pathStatus                |-> status]

SlotsOf(D) == {d.slot : d \in D}

(* inputs that differ only in a way the defined layers cannot show are drawn once *)
Relevant(D, refExists, swap, reqErr, programmer, importDir) ==
    /\ importDir # "" => \E d \in D : d.key = KBuildPath \/ d.kind = "tmpl"
    /\ programmer = "p_plat" => "pp" \in SlotsOf(D)
    /\ programmer = "p_ref" => "rp" \in SlotsOf(D)
    /\ programmer = "p_both" => SlotsOf(D) \cap {"pp", "rp"} # {}
    /\ refExists \/ SlotsOf(D) \cap {"ref", "rp"} = {}
    /\ swap => {"tool1", "tool2"} \subseteq SlotsOf(D)
    /\ reqErr => SlotsOf(D) \cap {"req1", "req2"} # {}

(* no sketch is being built *)
BuilderIdle ==
    /\ sketch = [MainFile |-> "Sketch.ino", OtherSketchFiles |-> <<>>, AdditionalFiles |-> <<>>,
                 outside |-> {}]
    /\ srcDisk = [f \in {"Sketch.ino"} |-> <<>>]
    /\ buildDisk = [dir |-> FALSE, files |-> [f \in {} |-> <<>>]]
    /\ call = NoCall
    /\ out = NoReturn

InitLayers ==
    /\ pc = "start"
    /\ \E D \in DefSets, id \in PlatformIds, refExists, swap, reqErr \in BOOLEAN,
          programmer \in {"", "p_plat", "p_ref", "p_both"}, importDir \in {"", "imp"} :
          /\ Relevant(D, refExists, swap, reqErr, programmer, importDir)
          /\ pm = PackageManager(D, id, refExists, swap, reqErr,
                                 [p \in {"skbuild", "imp"} |-> "dir"])
          /\ req = [sketchPath |-> "sk", fqbn |-> "arduino:samd:mkr1000",
                    programmer |-> programmer, importDir |-> importDir, port |-> <<>>]
    /\ sk = [openErr |-> FALSE, hasMetadata |-> FALSE, metadataFqbn |-> "",
             BuildPath |-> "skbuild", Name |-> "Blink"]
    /\ mergedProps = NewMap
    /\ toolProperties = NewMap
    /\ debugProperties = NewMap
    /\ ret = NotCalled
    /\ BuilderIdle

NextDebug == GetDebugConfig

SpecLayers == InitLayers /\ [][NextDebug]_vars

(* Requests and environments of every kind, over few layers *)
Ports == {<<>>, <<"/dev/", "ttyACM0">>, <<"COM3">>, <<"/dev/">>, <<"tty", "/dev/", "S0">>}

RequestDefSets ==
    {{}, {[slot |-> "board", key |-> KExecutable, kind |-> "tmpl"],
          [slot |-> "req1", key |-> KToolchain, kind |-> "lit"]}}

InitRequest ==
    /\ pc = "start"
    /\ req \in [sketchPath : {"", "sk"},
                fqbn : {"", "arduino:samd:mkr1000", "bad", "arduino:samd:unknown"},
                programmer : {"", "p_plat", "p_ref", "nonexistent"},
                importDir : {"", "imp"}, port : Ports]
    /\ sk \in [openErr : BOOLEAN, hasMetadata : BOOLEAN, metadataFqbn : {"", "arduino:avr:uno"},
               BuildPath : {"skbuild"}, Name : {"Blink"}]
    /\ req.sketchPath = "" => ~sk.openErr
    /\ ~sk.hasMetadata => sk.metadataFqbn = ""
    /\ \E D \in RequestDefSets, id \in {"arduino:samd@1.8.9", "arduino:avr@1.8.3"},
          refExists, reqErr \in BOOLEAN, status \in {"missing", "file", "dir"} :
          pm = PackageManager(D, id, refExists, FALSE, reqErr,
                              [p \in {"skbuild", "imp"} |-> IF p = ImportPath THEN status ELSE "dir"])
    /\ mergedProps = NewMap
    /\ toolProperties = NewMap
    /\ debugProperties = NewMap
    /\ ret = NotCalled
    /\ BuilderIdle

SpecRequest == InitRequest /\ [][NextDebug]_vars

-----------------------------------------------------------------------------
(* Properties of getDebugProperties *)

PlatformLayerSeq ==
    (IF pm.referencedPlatformRelease # Nil
     THEN <<pm.referencedPlatformRelease.Properties>> ELSE <<>>)
        \o <<pm.platformRelease.Properties, pm.platformRelease.RuntimeProperties,
             pm.boardProperties>>

SelectedProgrammer ==
    IF req.programmer = "" THEN <<>>
    ELSE IF req.programmer \in DOMAIN pm.platformRelease.Programmers
    THEN <<pm.platformRelease.Programmers[req.programmer]>>
    ELSE IF pm.referencedPlatformRelease # Nil
            /\ req.programmer \in DOMAIN pm.referencedPlatformRelease.Programmers
    THEN <<pm.referencedPlatformRelease.Programmers[req.programmer]>>
    ELSE <<>>

LaterLayerSeq ==
    pm.installedToolsReleases
        \o (IF pm.requiredToolsErr THEN <<>> ELSE pm.requiredTools)
        \o SelectedProgrammer

(* the layers of the request, lowest precedence first *)
LayerSeq == PlatformLayerSeq \o LaterLayerSeq

DefinedIn(layers) == UNION {DOMAIN layers[i] : i \in 1..Len(layers)}

(* the value of a key in the last layer of the sequence that defines it *)
TopValue(layers, k) ==
    LET top == CHOOSE i \in 1..Len(layers) :
                   /\ k \in DOMAIN layers[i]
                   /\ \A j \in (i + 1)..Len(layers) : k \notin DOMAIN layers[j]
    IN  layers[top][k]

LastWriteWins(store, layers) ==
    /\ DOMAIN store = DefinedIn(layers)
    /\ \A k \in DefinedIn(layers) : store[k] = TopValue(layers, k)

MergeCompleted ==
    /\ pc = "done"
    /\ \/ ret.kind = "ok"
       \/ ret.msg \in {"compiled sketch not found in %s",
                       "expected compiled sketch in directory %s, but is a file instead",
                       "debugging not supported for board %s"}

Extracted == pc = "done" /\ KBuildPath \in DOMAIN toolProperties

LegacyTable == LegacySet(NewMap)

IsLegacy == pm.platformRelease.String \in {"arduino:samd@1.8.9", "arduino:samd@1.8.8"}

LegacyLayerSeq ==
    IF IsLegacy /\ KExecutable \notin DefinedIn(PlatformLayerSeq) THEN <<LegacyTable>> ELSE <<>>

(* some key of the legacy set is in the merged store though no layer defines it,
   or holds the legacy value though the layers give it another one *)
LegacyInjected ==
    \E k \in DOMAIN LegacyTable :
        /\ k \in DOMAIN mergedProps
        /\ \/ k \notin DefinedIn(LayerSeq)
           \/ mergedProps[k] = LegacyTable[k] /\ TopValue(LayerSeq, k) # LegacyTable[k]

(* C1, as stated: once the layers are merged, every key holds the value of
   the highest-precedence layer that defines it, the layers being the
   referenced platform, the platform, its runtime properties, the board, the
   installed tools, the required tools and the selected programmer. *)
C1_Original == MergeCompleted => LastWriteWins(mergedProps, LayerSeq)

(* C1, amended: the same with one more layer, the hardcoded legacy set,
   placed between the board and the installed tools when the platform is a
   legacy one and none of the four platform and board layers defines
   debug.executable. *)
C1_Precedence ==
    MergeCompleted => LastWriteWins(mergedProps, PlatformLayerSeq \o LegacyLayerSeq \o LaterLayerSeq)

C1_Witness ==
    /\ MergeCompleted
    /\ LegacyLayerSeq # <<>>
    /\ \E i, j \in 1..Len(LayerSeq) : \E k \in DOMAIN LayerSeq[i] :
          i < j /\ k \in DOMAIN LayerSeq[j] /\ LayerSeq[i][k] # LayerSeq[j][k]
    /\ KToolchain \in DOMAIN pm.boardProperties

(* C7, as stated: the legacy set is injected exactly when the platform is a
   legacy one and no layer at all defines debug.executable; otherwise the
   merged store holds only what the layers define. *)
C7_Original ==
    MergeCompleted =>
        /\ LegacyInjected <=> (IsLegacy /\ KExecutable \notin DefinedIn(LayerSeq))
        /\ ~(IsLegacy /\ KExecutable \notin DefinedIn(LayerSeq))
               => LastWriteWins(mergedProps, LayerSeq)

(* C7, amended: the legacy set is injected exactly when the platform is a
   legacy one and none of the referenced platform, platform, runtime and
   board layers defines debug.executable, whatever the tools and the
   programmer define; otherwise the merged store holds only what the layers
   define. *)
C7_LegacyInjection ==
    MergeCompleted =>
        /\ LegacyInjected <=> (IsLegacy /\ KExecutable \notin DefinedIn(PlatformLayerSeq))
        /\ ~(IsLegacy /\ KExecutable \notin DefinedIn(PlatformLayerSeq))
               => LastWriteWins(mergedProps, LayerSeq)

C7_Witness ==
    /\ MergeCompleted
    /\ IsLegacy
    /\ KExecutable \in DefinedIn(LaterLayerSeq)
    /\ KExecutable \notin DefinedIn(PlatformLayerSeq)
    /\ LegacyInjected

RECURSIVE BindRequest(_)
(* a value with the two request-scoped placeholders replaced by the request's values *)
BindRequest(v) ==
    IF v = <<>> THEN <<>>
    ELSE (IF Head(v) = Ref(KBuildPath) THEN <<Lit(ImportPath)>>
          ELSE IF Head(v) = Ref(KProjectName) THEN <<Lit(sk.Name), Lit(".ino")>>
          ELSE <<Head(v)>>) \o BindRequest(Tail(v))

(* C6: build.path and build.project_name hold the request's values whatever
   the layers define for them, and every value of the debug subtree is the
   merged value with {build.path} and {build.project_name} replaced by the
   request's values. *)
C6_BuildPathBinding ==
    Extracted =>
        /\ toolProperties[KBuildPath] = <<Lit(ImportPath)>>
        /\ toolProperties[KProjectName] = <<Lit(sk.Name), Lit(".ino")>>
        /\ \A k \in DOMAIN debugProperties :
              /\ <<"debug">> \o k \in DOMAIN mergedProps
              /\ debugProperties[k] = BindRequest(mergedProps[<<"debug">> \o k])

C6_Witness ==
    /\ Extracted
    /\ KBuildPath \in DefinedIn(LayerSeq)
    /\ KProjectName \notin DefinedIn(LayerSeq)
    /\ req.importDir # ""
    /\ KExecutable \in DOMAIN mergedProps
    /\ \E i \in 1..Len(mergedProps[KExecutable]) : mergedProps[KExecutable][i] = Ref(KBuildPath)
    /\ \E i \in 1..Len(ret.response.Executable) : ret.response.Executable[i] = Lit("imp")

(* the steps before the programmer lookup succeeded *)
BoardResolved ==
    /\ req.sketchPath # ""
    /\ ~sk.openErr
    /\ FqbnIn # ""
    /\ FqbnIn \notin pm.unparsable \cup pm.unknown

ProgrammerAbsent ==
    /\ req.programmer # ""
    /\ req.programmer \notin DOMAIN pm.platformRelease.Programmers
    /\ \/ pm.referencedPlatformRelease = Nil
       \/ req.programmer \notin DOMAIN pm.referencedPlatformRelease.Programmers

(* C2: a requested programmer that neither the platform nor the referenced
   platform has, or that the platform lacks when there is no referenced
   platform, makes the resolution return the error "programmer not found"
   with the requested identifier. *)
C2_ProgrammerNotFound ==
    (pc = "done" /\ BoardResolved /\ ProgrammerAbsent)
        => ret = Failure("programmer '%s' not found", req.programmer)

(* C3: when the expanded debug subtree has no executable key, the resolution
   fails with "debugging not supported for board" naming the board identifier
   that was resolved, whether it came from the request or from the sketch
   metadata. *)
C3_UnsupportedNamesBoard ==
    (Extracted /\ ~ContainsKey(debugProperties, <<"executable">>))
        => ret = Failure("debugging not supported for board %s", FqbnIn)

StartsWithDev == Len(req.port) >= 1 /\ req.port[1] = "/dev/"

(* C8, as stated: debug.port is the address when one is given, and
   debug.port.file is set only for an address that starts with /dev/, to the
   address without that prefix. *)
C8_Original ==
    Extracted =>
        /\ req.port # <<>> => toolProperties[KPort] = AsValue(req.port)
        /\ KPortFile \in DOMAIN toolProperties <=> StartsWithDev
        /\ StartsWithDev => <<Lit("/dev/")>> \o toolProperties[KPortFile] = AsValue(req.port)

(* C8, amended: debug.port and debug.port.file are both set exactly when an
   address is given; debug.port is the address, debug.port.file is the
   address without its /dev/ prefix when it starts with one, and the whole
   address otherwise. *)
C8_PortBinding ==
    Extracted =>
        /\ KPort \in DOMAIN toolProperties <=> req.port # <<>>
        /\ KPortFile \in DOMAIN toolProperties <=> req.port # <<>>
        /\ req.port # <<>> =>
              /\ toolProperties[KPort] = AsValue(req.port)
              /\ StartsWithDev => <<Lit("/dev/")>> \o toolProperties[KPortFile] = AsValue(req.port)
              /\ ~StartsWithDev => toolProperties[KPortFile] = AsValue(req.port)

C8_Witness ==
    /\ Extracted
    /\ req.port # <<>>
    /\ ~StartsWithDev
    /\ \E i \in 1..Len(req.port) : req.port[i] = "/dev/"
    /\ toolProperties[KPortFile] = toolProperties[KPort]

(* a step of the resolution fails *)
SomeStepFails ==
    \/ req.sketchPath = ""
    \/ sk.openErr
    \/ FqbnIn = ""
    \/ FqbnIn \in pm.unparsable \cup pm.unknown
    \/ pm.requiredToolsErr
    \/ ProgrammerAbsent
    \/ pm.pathStatus[ImportPath] # "dir"

(* C9: when a step of the resolution fails, the resolution returns an error
   to its caller. *)
C9_NoSwallowedFailure == (pc = "done" /\ SomeStepFails) => ret.kind = "error"

-----------------------------------------------------------------------------
(* The builder's inputs *)

MaxLen == 4

Alphabet == {"#", "include", "<Arduino.h>", "<arduino.h>", "ws", "nl", "x"}

Texts == UNION {[1..n -> Alphabet] : n \in 0..MaxLen}

(* no debug configuration is being resolved *)
DebugIdle ==
    /\ pc = "done"
    /\ req = [sketchPath |-> "", fqbn |-> "", programmer |-> "", importDir |-> "", port |-> <<>>]
    /\ sk = [openErr |-> FALSE, hasMetadata |-> FALSE, metadataFqbn |-> "",
             BuildPath |-> "skbuild", Name |-> "Blink"]
    /\ pm = PackageManager({}, "arduino:avr@1.8.3", FALSE, FALSE, FALSE,
                           [p \in {"skbuild", "imp"} |-> "dir"])
    /\ mergedProps = NewMap
    /\ toolProperties = NewMap
    /\ debugProperties = NewMap
    /\ ret = NotCalled

SmallTexts == {<<>>, <<"x">>, IncludeLine}

(* every main file up to MaxLen tokens, alone or with two other files; for a
   few main files also an unreadable main file, an unreadable other file and
   another file outside of the sketch directory *)
InitMerge ==
    /\ DebugIdle
    /\ \E t \in Texts, others \in {<<>>, <<"b.ino", "c\".ino">>},
          out1 \in {{}, {"c\".ino"}}, lost \in {{}, {"Sketch.ino"}, {"b.ino"}} :
          /\ (out1 # {} \/ lost # {}) => (t \in SmallTexts /\ others # <<>>)
          /\ sketch = [MainFile |-> "Sketch.ino", OtherSketchFiles |-> others,
                       AdditionalFiles |-> <<>>, outside |-> out1]
          /\ srcDisk = [f \in {"Sketch.ino", "b.ino", "c\".ino"} \ lost |->
                          IF f = "Sketch.ino" THEN t
                          ELSE IF f = "b.ino" THEN IncludeLine ELSE <<"x">>]
    /\ buildDisk = [dir |-> FALSE, files |-> [f \in {} |-> <<>>]]
    /\ call = NoCall
    /\ out = NoReturn

NextMerge == SketchMergeSources

SpecMerge == InitMerge /\ [][NextMerge]_vars

NewBuildDir == [dir |-> FALSE, files |-> [f \in {} |-> <<>>]]

(* the build directory of an earlier build: data.txt is up to date, the
   merged file and src/util.h are not *)
OldBuildDir ==
    [dir |-> TRUE,
     files |-> [f \in {"Sketch.ino.cpp", "data.txt", "src/util.h"} |->
                  IF f = "data.txt" THEN LineMarker("data.txt") \o <<"x">> ELSE <<"old">>]]

(* a sketch with one other source file and two additional files, one of its
   files possibly outside of the sketch directory *)
InitBuild ==
    /\ DebugIdle
    /\ \E out1 \in {{}, {"b.ino"}, {"src/util.h"}} :
          sketch = [MainFile |-> "Sketch.ino", OtherSketchFiles |-> <<"b.ino">>,
                    AdditionalFiles |-> <<"data.txt", "src/util.h">>, outside |-> out1]
    /\ srcDisk = [f \in {"Sketch.ino", "b.ino", "data.txt", "src/util.h"} |-> <<"x">>]
    /\ buildDisk \in {NewBuildDir, OldBuildDir}
    /\ call = NoCall
    /\ out = NoReturn

NextBuild ==
    \/ PrepareSketchBuildPath
    \/ LoseFile

SpecBuild == InitBuild /\ [][NextBuild]_vars

(* the additional files of a sketch, copied again and again *)
InitCopy ==
    /\ DebugIdle
    /\ \E out1 \in {{}, {"src/util.h"}} :
          sketch = [MainFile |-> "Sketch.ino", OtherSketchFiles |-> <<>>,
                    AdditionalFiles |-> <<"data.txt", "src/util.h">>, outside |-> out1]
    /\ srcDisk = [f \in {"Sketch.ino", "data.txt", "src/util.h"} |-> <<"x">>]
    /\ buildDisk \in {NewBuildDir, OldBuildDir}
    /\ call = NoCall
    /\ out = NoReturn

NextCopy ==
    \/ SketchCopyAdditionalFiles
    \/ EditFile
    \/ LoseFile

SpecCopy == InitCopy /\ [][NextCopy]_vars

-----------------------------------------------------------------------------
(* Properties of the sketch builder *)

RECURSIVE LinesOf(_)
(* the complete lines of a text, without their newlines *)
LinesOf(text) ==
    IF \A i \in 1..Len(text) : text[i] # "nl" THEN <<>>
    ELSE LET n == CHOOSE i \in 1..Len(text) :
                      text[i] = "nl" /\ \A j \in 1..(i - 1) : text[j] # "nl"
         IN  <<SubSeq(text, 1, n - 1)>> \o LinesOf(SubSeq(text, n + 1, Len(text)))

(* the text a call with these overrides takes for a file *)
SourceOf(f, overrides) == IF f \in DOMAIN overrides THEN overrides[f] ELSE srcDisk[f]

RECURSIVE OtherLines(_, _)
(* what the other source files add to the merged text: for each, its marker
   line and then its lines *)
OtherLines(files, overrides) ==
    IF files = <<>> THEN <<>>
    ELSE <<<<"#line 1 ">> \o QuoteString(PathString(Head(files)))>>
             \o LinesOf(SourceOf(Head(files), overrides) \o <<"nl">>)
             \o OtherLines(Tail(files), overrides)

Merged == call.op = "sketchMergeSources" /\ out.err = NoError

(* C4: the line offset is the number of lines of the merged text before the
   first line of the main file: 2 (the injected include and the #line marker)
   when the text of the main file has no include of Arduino.h, 1 (the marker)
   when it has one; the other source files follow the main file in their
   order, each after its marker, and do not change the offset. *)
C4_LineOffset ==
    Merged =>
        LET main  == SourceOf(sketch.MainFile, call.overrides)
            lines == LinesOf(out.merged)
            own   == LinesOf(main \o <<"nl">>)
        IN  /\ out.offset = IF includesArduinoH(main) THEN 1 ELSE 2
            /\ Len(lines) >= out.offset + Len(own)
            /\ \A j \in 1..(out.offset - 1) : lines[j] = <<"#", "include", "ws", "<Arduino.h>">>
            /\ lines[out.offset] = <<"#line 1 ">> \o QuoteString(PathString(sketch.MainFile))
            /\ SubSeq(lines, out.offset + 1, out.offset + Len(own)) = own
            /\ SubSeq(lines, out.offset + Len(own) + 1, Len(lines))
                   = OtherLines(sketch.OtherSketchFiles, call.overrides)

C4_Witness ==
    /\ Merged
    /\ out.offset = 1
    /\ sketch.MainFile \in DOMAIN call.overrides
    /\ ~includesArduinoH(srcDisk[sketch.MainFile])
    /\ Len(sketch.OtherSketchFiles) = 2

AdditionalSet == {sketch.AdditionalFiles[i] : i \in 1..Len(sketch.AdditionalFiles)}

(* C5: in a run of sketchCopyAdditionalFiles, a file that the run copies
   without an input/output error is written exactly when its destination
   does not exist or differs from the marker line followed by the source or
   override text, and then holds that content; a run without error copies
   every additional file.  A file copied by two runs in a row is not written
   by the second when its content is the same, and is written when it
   changed. *)
C5_WriteIfDifferent ==
    [][(srcDisk' = srcDisk /\ call'.op = "sketchCopyAdditionalFiles") =>
          /\ out'.err = NoError => DOMAIN call'.done = AdditionalSet
          /\ \A f \in DOMAIN call'.done :
                LET computed == LineMarker(f) \o SourceOf(f, call'.overrides)
                IN  /\ call'.done[f] = computed
                    /\ buildDisk'.files[f] = computed
                    /\ f \in call'.written
                          <=> (f \notin DOMAIN buildDisk.files \/ buildDisk.files[f] # computed)
                    /\ (call.op = "sketchCopyAdditionalFiles" /\ f \in DOMAIN call.done)
                          => (f \in call'.written <=> call.done[f] # computed)
      ]_vars

C5_Witness ==
    /\ call.op = "sketchCopyAdditionalFiles"
    /\ out.err = NoError
    /\ call.written = {"src/util.h"}
    /\ "data.txt" \in DOMAIN srcDisk
    /\ srcDisk["data.txt"] # <<"x">>
    /\ buildDisk.files["data.txt"] = LineMarker("data.txt") \o srcDisk["data.txt"]

StepOrder == <<"mkdir", "merge", "write", "copy">>

(* the merge of a call with these overrides fails: a source file is outside
   of the sketch directory, or has no override and cannot be read *)
MergeFails(overrides) ==
    \E f \in {sketch.MainFile} \cup {sketch.OtherSketchFiles[i] : i \in 1..Len(sketch.OtherSketchFiles)} :
        f \in sketch.outside \/ (f \notin DOMAIN overrides /\ f \notin DOMAIN srcDisk)

SameFile(f) ==
    /\ f \in DOMAIN buildDisk'.files <=> f \in DOMAIN buildDisk.files
    /\ f \in DOMAIN buildDisk.files => buildDisk'.files[f] = buildDisk.files[f]

(* C10: PrepareSketchBuildPath creates the build directory, merges the
   sources, writes the merged file and copies the additional files, in this
   order, and stops at the first step that fails, returning the error and
   the offset 0: a failed merge leaves every file of the build directory as
   it was, a failed write of the merged file leaves the additional files as
   they were, and a call that returns an offset other than 0 has written the
   merged file and copied every additional file. *)
C10_StepOrder ==
    [][(srcDisk' = srcDisk /\ call'.op = "PrepareSketchBuildPath") =>
          LET n == Len(call'.steps)
          IN  /\ n \in 1..4 /\ call'.steps = SubSeq(StepOrder, 1, n)
              /\ out'.err # NoError => out'.offset = 0
              /\ n < 4 => out'.err # NoError
              /\ n = 1 => buildDisk' = buildDisk
              /\ MergeFails(call'.overrides) =>
                    /\ out'.err # NoError
                    /\ n <= 2
                    /\ buildDisk'.files = buildDisk.files
              /\ n <= 2 => SameFile(CppFile)
              /\ n <= 3 => \A f \in AdditionalSet : SameFile(f)
              /\ out'.offset # 0 =>
                    /\ out'.err = NoError
                    /\ n = 4
                    /\ buildDisk'.dir
                    /\ buildDisk'.files[CppFile] = call'.merged
                    /\ LinesOf(call'.merged)[out'.offset]
                           = <<"#line 1 ">> \o QuoteString(PathString(sketch.MainFile))
                    /\ \A f \in AdditionalSet :
                          buildDisk'.files[f] = LineMarker(f) \o SourceOf(f, call'.overrides)
      ]_vars

C10_Witness ==
    /\ call.op = "PrepareSketchBuildPath"
    /\ call.steps = <<"mkdir", "merge">>
    /\ out.err = "reading file"
    /\ out.offset = 0
    /\ buildDisk.files = OldBuildDir.files

====
